---------------------------- MODULE Spec2Model ----------------------------
(***************************************************************************)
(* A model of "3. Modeling/3d_conv.py": the subject-file loader, the       *)
(* shuffle and split of the subject list, the training loop with its      *)
(* validation, plateau scheduler and checkpoint, and the test evaluator.  *)
(*                                                                         *)
(* Abstractions.  A window of sensor data is identified by where it came  *)
(* from, <<subject, raw class, raw window index>>.  The parameters of the *)
(* network are identified by how often they were changed: ver counts the  *)
(* optimizer steps, stat the updates of the batch-norm running            *)
(* statistics.  What a forward pass computes is not modelled; its result  *)
(* is drawn from a bounded set, once per parameter value in inference     *)
(* mode (the network is then a function of its parameters and its input)  *)
(* and afresh at every call in training mode (dropout).  A loss is an     *)
(* integer in units of 1/ThresholdDen of the largest finite loss, or one  *)
(* of the two float values Inf and NaN.                                   *)
(***************************************************************************)
EXTENDS Integers, Sequences, FiniteSets, TLC

(***************************************************************************)
(* Program constants.                                                      *)
(***************************************************************************)
NumClasses == 4
SliceLo == 10
SliceHi == 90
BatchSize == 16
TestEnd == 6
ValEnd == 12
NumGroups == 6
FirstSubject == 1
LastSubject == 59
ExcludedSubjects == {38, 42, 57}
Patience == 3
InitLrExp == 2
MinLrExp == 8
ThresholdDen == 10000
EntryEpochs == 50

(***************************************************************************)
(* Bounds of the model.                                                    *)
(***************************************************************************)
MaxEpochs == 6
MaxLossDelta == 2
MaxSubjects == 56
MaxClassSamples == 2
MaxDataEpochs == 2
MaxSwaps == 2
MaxLoadFiles == 2
MaxLoadSamples == 2
MaxTestSamples == 4
MaxValSamples == 17
MaxCalls == 2

(***************************************************************************)
(* Floats: the finite losses, +infinity and NaN, and Python's <.           *)
(***************************************************************************)
Inf == ThresholdDen + 1
NaN == ThresholdDen + 2
FiniteLosses == (ThresholdDen - MaxLossDelta)..ThresholdDen
Losses == FiniteLosses \cup {Inf, NaN}

\* a < b on floats: false as soon as one side is NaN
FloatLt(a, b) == a # NaN /\ b # NaN /\ a < b

(***************************************************************************)
(* Sequences, Python slices, numpy helpers.                                *)
(***************************************************************************)
Min(a, b) == IF a < b THEN a ELSE b
Max(a, b) == IF a < b THEN b ELSE a

\* s[a:b] for 0 <= a, 0 <= b (positions counted from 0, end excluded)
PySlice(s, a, b) ==
    LET lo == Min(a, Len(s))
        hi == Min(b, Len(s))
    IN  IF hi <= lo THEN <<>> ELSE [k \in 1..(hi - lo) |-> s[lo + k]]

\* s[a:]
PySliceFrom(s, a) == PySlice(s, a, Len(s))

\* np.arange(n)[a:b] as a sequence of 0-based positions
Arange(a, b) == IF b <= a THEN <<>> ELSE [k \in 1..(b - a) |-> a + k - 1]

SeqToSet(s) == {s[k] : k \in 1..Len(s)}

\* a split that drops the remainder
ArraySplitStartFloor(n, sections, g) == (g - 1) * (n \div sections)

\* np.array_split(np.arange(n), sections): the first n % sections groups get
\* one element more than the others, all groups contiguous
ArraySplitStart(n, sections, g) ==
    (g - 1) * (n \div sections) + Min(g - 1, n % sections)

ArraySplit(n, sections) ==
    [g \in 1..sections |->
        Arange(ArraySplitStart(n, sections, g), ArraySplitStart(n, sections, g + 1))]

(***************************************************************************)
(* load_data and PVDFDataset3D.                                            *)
(***************************************************************************)
\* a label rule that keeps the raw class
LabelRaw(i) == i

\* the label of raw class i (line 54)
Label(i) == IF i = 1 \/ i = 2 THEN 1 ELSE IF i = 3 THEN 2 ELSE 0

\* data.shape[2] after f[ref][10:90, :, :].T : the length of the slice 10:90
\* of a first axis of length rawLen
NumSamples(rawLen) == Max(Min(rawLen, SliceHi) - Min(rawLen, SliceLo), 0)

\* what one pass of the inner loop appends to data_list and labels_list
ClassBlock(subj, i, fs) ==
    LET m == NumSamples(fs[subj][i + 1])
    IN  [data   |-> IF m = 0 THEN <<>> ELSE [k \in 1..m |-> <<subj, i, SliceLo + k - 1>>],
         labels |-> IF m = 0 THEN <<>> ELSE [k \in 1..m |-> Label(i)]]

\* the blocks appended for one subject, raw classes 0..3 in order
SubjectBlocks(subj, fs) == [c \in 1..NumClasses |-> ClassBlock(subj, c - 1, fs)]

\* data_list / labels_list after the first k rounds of the outer loop over
\* idxs (0-based positions)
RECURSIVE BlockListTo(_, _, _, _)
BlockListTo(subject_files_, idxs, fs, k) ==
    IF k = 0 THEN <<>>
    ELSE BlockListTo(subject_files_, idxs, fs, k - 1)
         \o SubjectBlocks(subject_files_[idxs[k] + 1], fs)

BlockList(subject_files_, idxs, fs) ==
    BlockListTo(subject_files_, idxs, fs, Len(idxs))

\* PVDFDataset3D(data, labels); __len__ is len(labels)
PVDFDataset3D(data, labels) == [data |-> data, labels |-> labels]
DatasetLen(ds) == Len(ds.labels)

NoDataset == PVDFDataset3D(<<>>, <<>>)

\* np.concatenate(data_list, axis=0) and np.concatenate(labels_list): the blocks
\* joined in the order they were appended, subject by subject, class by class
RECURSIVE SubjectDataTo(_, _, _)
SubjectDataTo(subj, fs, c) ==
    IF c = 0 THEN <<>>
    ELSE SubjectDataTo(subj, fs, c - 1) \o ClassBlock(subj, c - 1, fs).data

RECURSIVE SubjectLabelsTo(_, _, _)
SubjectLabelsTo(subj, fs, c) ==
    IF c = 0 THEN <<>>
    ELSE SubjectLabelsTo(subj, fs, c - 1) \o ClassBlock(subj, c - 1, fs).labels

RECURSIVE ConcatDataTo(_, _, _, _)
ConcatDataTo(subject_files_, idxs, fs, k) ==
    IF k = 0 THEN <<>>
    ELSE ConcatDataTo(subject_files_, idxs, fs, k - 1)
         \o SubjectDataTo(subject_files_[idxs[k] + 1], fs, NumClasses)

RECURSIVE ConcatLabelsTo(_, _, _, _)
ConcatLabelsTo(subject_files_, idxs, fs, k) ==
    IF k = 0 THEN <<>>
    ELSE ConcatLabelsTo(subject_files_, idxs, fs, k - 1)
         \o SubjectLabelsTo(subject_files_[idxs[k] + 1], fs, NumClasses)

ConcatData(subject_files_, idxs, fs) ==
    ConcatDataTo(subject_files_, idxs, fs, Len(idxs))

ConcatLabels(subject_files_, idxs, fs) ==
    ConcatLabelsTo(subject_files_, idxs, fs, Len(idxs))

\* load_data(subject_files, group_indices): np.concatenate raises ValueError
\* on an empty list
LoadData(subject_files_, idxs, fs) ==
    IF BlockList(subject_files_, idxs, fs) = <<>>
    THEN [ok |-> FALSE, dataset |-> NoDataset]
    ELSE [ok |-> TRUE,
          dataset |-> PVDFDataset3D(ConcatData(subject_files_, idxs, fs),
                                    ConcatLabels(subject_files_, idxs, fs))]

\* group_indices is None: range(len(subject_files))
LoadAll(subject_files_, fs) == LoadData(subject_files_, Arange(0, Len(subject_files_)), fs)

\* the number of batches a DataLoader(batch_size=16) yields for n samples
NumBatches(n) == (n + BatchSize - 1) \div BatchSize

(***************************************************************************)
(* The state.                                                              *)
(***************************************************************************)
VARIABLES
    pc,                  \* where the program is
    err,                 \* the exception that ended the run, "" if none
    subject_files,       \* the list of subject files (subject numbers)
    file_samples,        \* per subject, the first-axis length of each raw class
    num_epochs,
    test_subjects, validation_subjects, train_subjects,
    validation_loader, train_groups, train_loader_list, test_loader,
    mode,                \* model.training: "train" or "eval"
    params,              \* the model's state_dict: [ver, stat]
    eval_memo,           \* what the current parameters yield in inference mode
    lr_exp,              \* the optimizer's learning rate is 10^(-lr_exp)
    scheduler,           \* ReduceLROnPlateau: [best, num_bad_epochs, last_epoch]
    epoch,               \* epochs completed
    best_validation_loss,
    g, pos, order,       \* current loader, samples drawn from it, its sampler order
    used,                \* per loader, how often each sample was used this epoch
    total_samples, total_batches,
    validation_loss, validation_accuracy,
    checkpoint,          \* "3d_best_model.pth": <<>> or <<the saved state_dict>>
    test_report,         \* what test_model computed
    call, ret,           \* arguments and results of a function applied on its own
    hist                 \* history of the run, for the properties

vars == <<pc, err, subject_files, file_samples, num_epochs, test_subjects,
          validation_subjects, train_subjects, validation_loader, train_groups,
          train_loader_list, test_loader, mode, params, eval_memo, lr_exp,
          scheduler, epoch, best_validation_loss, g, pos, order, used,
          total_samples, total_batches, validation_loss, validation_accuracy,
          checkpoint, test_report, call, ret, hist>>

inputVars == <<subject_files, file_samples, num_epochs>>
splitVars == <<test_subjects, validation_subjects, train_subjects>>
loaderVars == <<validation_loader, train_groups, train_loader_list, test_loader>>
modelVars == <<mode, params, eval_memo, lr_exp, scheduler>>
loopVars == <<epoch, best_validation_loss, g, pos, order, used, total_samples,
              total_batches, validation_loss, validation_accuracy>>
callVars == <<call, ret>>

(***************************************************************************)
(* The model, the optimizer and the scheduler as constructed.              *)
(***************************************************************************)
\* CNN3D(): a fresh module is in training mode
NewParams == [ver |-> 0, stat |-> 0]

\* ReduceLROnPlateau(optimizer, mode='min', patience=3, factor=0.1)
NewScheduler == [best |-> Inf, num_bad_epochs |-> 0, last_epoch |-> 0]

NoAccuracy == [num |-> 0, den |-> 1]
NoReport == [ran |-> 0, labels |-> <<>>, all_labels |-> <<>>, all_preds |-> <<>>,
             cm |-> <<>>, accuracy |-> NoAccuracy]

NoHist == [ckpt_writes |-> 0, wrote |-> FALSE, earlier |-> {}, seen |-> {},
           step_mode |-> "none", opt_steps |-> 0,
           reduced |-> FALSE, lr_before |-> InitLrExp, sched_metric |-> Inf,
           bad_run |-> 0, best_before |-> Inf, stepped |-> <<>>,
           tested |-> <<>>]

\* the variables as they are before the code that sets them has run
UnsetSplit ==
    test_subjects = <<>> /\ validation_subjects = <<>> /\ train_subjects = <<>>
UnsetGroups == train_groups = <<>> /\ train_loader_list = <<>>
UnsetModel ==
    /\ mode = "train" /\ params = NewParams /\ eval_memo = <<>>
    /\ lr_exp = InitLrExp /\ scheduler = NewScheduler
UnsetLoop ==
    /\ epoch = 0 /\ best_validation_loss = Inf
    /\ g = 1 /\ pos = 0 /\ order = "fwd" /\ used = <<>>
    /\ total_samples = 0 /\ total_batches = 0
    /\ validation_loss = Inf /\ validation_accuracy = NoAccuracy
UnsetOut == err = "" /\ checkpoint = <<>> /\ test_report = NoReport /\ hist = NoHist
UnsetCall == call = <<>> /\ ret = <<>>

Unset ==
    /\ UnsetSplit /\ UnsetGroups /\ UnsetModel /\ UnsetLoop /\ UnsetOut /\ UnsetCall
    /\ validation_loader = NoDataset /\ test_loader = NoDataset

\* every subject file holds the same number of raw windows in each class
UniformFiles(subjects, rawLen) ==
    [s \in subjects |-> [c \in 1..NumClasses |-> rawLen]]

\* train_and_evaluate(subject_files, num_epochs) after random.shuffle:
\* n subjects in the order the shuffle left them
RunInit(ns, rawLens, epochs) ==
    /\ pc = "partition"
    /\ \E n \in ns : subject_files = [k \in 1..n |-> k]
    /\ \E r \in rawLens : file_samples = UniformFiles(1..Len(subject_files), r)
    /\ num_epochs \in epochs
    /\ Unset

\* the smallest subject list with six non-empty training groups
MinSubjects == ValEnd + NumGroups

Init == RunInit({MinSubjects}, {SliceLo + 1}, 1..MaxEpochs)

\* every list length for one epoch over one sample per class, and the shortest
\* and the longest lists for every sample count and number of epochs
InitData ==
    \/ RunInit(0..MaxSubjects, {SliceLo + 1}, {1})
    \/ RunInit({MinSubjects, MaxSubjects - 1, MaxSubjects},
               SliceLo..(SliceLo + MaxClassSamples), 1..MaxDataEpochs)

(***************************************************************************)
(* train_and_evaluate, lines 186-201.                                      *)
(***************************************************************************)
Raise(e) == pc' = "error" /\ err' = e

TestSlice(files) == PySlice(files, 0, TestEnd)

\* a validation slice that starts one position early
ValidationSliceEarly(files) == PySlice(files, TestEnd - 1, ValEnd)

ValidationSlice(files) == PySlice(files, TestEnd, ValEnd)

\* a training slice that starts one position late
TrainSliceLate(files) == PySliceFrom(files, ValEnd + 1)

TrainSlice(files) == PySliceFrom(files, ValEnd)

\* lines 186-188
Partition ==
    /\ pc = "partition"
    /\ test_subjects' = TestSlice(subject_files)
    /\ validation_subjects' = ValidationSlice(subject_files)
    /\ train_subjects' = TrainSlice(subject_files)
    /\ pc' = "load_validation"
    /\ UNCHANGED <<err, inputVars, loaderVars, modelVars, loopVars, checkpoint,
                   test_report, callVars, hist>>

\* lines 190-191
LoadValidation ==
    /\ pc = "load_validation"
    /\ LET r == LoadAll(validation_subjects, file_samples)
       IN  IF r.ok
           THEN /\ validation_loader' = r.dataset
                /\ pc' = "build"
                /\ err' = err
           ELSE /\ Raise("ValueError")
                /\ UNCHANGED validation_loader
    /\ UNCHANGED <<inputVars, splitVars, train_groups, train_loader_list,
                   test_loader, modelVars, loopVars, checkpoint, test_report,
                   callVars, hist>>

\* lines 193-200: the model, the optimizer, the scheduler, the groups
Build ==
    /\ pc = "build"
    /\ mode' = "train"
    /\ params' = NewParams
    /\ eval_memo' = <<>>
    /\ lr_exp' = InitLrExp
    /\ scheduler' = NewScheduler
    /\ train_groups' = ArraySplit(Len(train_subjects), NumGroups)
    /\ train_loader_list' = <<>>
    /\ pc' = "load_groups"
    /\ UNCHANGED <<err, inputVars, splitVars, validation_loader, test_loader,
                   loopVars, checkpoint, test_report, callVars, hist>>

\* line 201: one element of the list comprehension
LoadGroup ==
    /\ pc = "load_groups"
    /\ LET r == LoadData(train_subjects, train_groups[Len(train_loader_list) + 1],
                         file_samples)
       IN  IF r.ok
           THEN /\ train_loader_list' = Append(train_loader_list, r.dataset)
                /\ pc' = IF Len(train_loader_list) + 1 = Len(train_groups)
                         THEN "train_model" ELSE "load_groups"
                /\ err' = err
           ELSE /\ Raise("ValueError")
                /\ UNCHANGED train_loader_list
    /\ UNCHANGED <<inputVars, splitVars, validation_loader, train_groups,
                   test_loader, modelVars, loopVars, checkpoint, test_report,
                   callVars, hist>>

(***************************************************************************)
(* The network: what a forward pass and an optimizer step change.          *)
(***************************************************************************)
\* a forward pass in training mode updates the batch-norm running statistics
\* (also under torch.no_grad()); in inference mode it changes nothing
Forward(p, md) == IF md = "train" THEN [p EXCEPT !.stat = @ + 1] ELSE p

RECURSIVE ForwardN(_, _, _)
ForwardN(p, md, k) == IF k = 0 THEN p ELSE ForwardN(Forward(p, md), md, k - 1)

\* optimizer.step()
OptimizerStep(p) == [p EXCEPT !.ver = @ + 1]

\* (average loss, correct predictions) a pass over n samples can yield
MetricChoices(n) == [loss : Losses, correct : {0, n}]

(***************************************************************************)
(* validate_model, lines 140-159.                                          *)
(***************************************************************************)
\* a validation that leaves the mode as it finds it
ValidateModeKept(md) == md

\* line 141: model.eval()
ValidateMode(md) == "eval"

\* the metrics the loop of lines 148-155 can add up to: in inference mode
\* they are a function of the parameters, in training mode dropout draws them
ValidateDraws(md0, memo, loader) ==
    IF NumBatches(DatasetLen(loader)) = 0 THEN {[loss |-> Inf, correct |-> 0]}
    ELSE IF ValidateMode(md0) = "eval" /\ memo # <<>> THEN {memo[1]}
    ELSE MetricChoices(DatasetLen(loader))

ValidateModel(md0, p, memo, loader, m) ==
    LET md == ValidateMode(md0)
        n  == DatasetLen(loader)
        nb == NumBatches(n)
        p1 == ForwardN(p, md, nb)
    IN  [mode     |-> md,
         params   |-> p1,
         memo     |-> IF nb = 0 THEN memo
                      ELSE IF md = "eval" THEN <<m>> ELSE <<>>,
         \* lines 157-158 divide by total_batches and total_samples
         ok       |-> nb # 0,
         loss     |-> m.loss,
         accuracy |-> [num |-> m.correct * 100, den |-> Max(n, 1)]]

(***************************************************************************)
(* ReduceLROnPlateau(mode='min', patience=3, factor=0.1) and its defaults  *)
(* threshold=1e-4 (relative), cooldown=0, min_lr=0, eps=1e-8.              *)
(***************************************************************************)
\* is_better: a < best * (1 - threshold)
IsBetter(a, best) ==
    /\ a # NaN
    /\ IF best = Inf THEN a < Inf
       ELSE a # Inf /\ a * ThresholdDen < best * (ThresholdDen - 1)

\* a scheduler that counts the patience inclusively
PatienceReached(num_bad) == num_bad >= Patience

PatienceExceeded(num_bad) == num_bad > Patience

\* _reduce_lr: new_lr = lr * 0.1, applied when lr - new_lr > eps
ReduceLr(e) == IF e < MinLrExp THEN e + 1 ELSE e

\* scheduler.step(metrics)
SchedulerStep(s, lr, metric) ==
    LET better == IsBetter(metric, s.best)
        bad    == IF better THEN 0 ELSE s.num_bad_epochs + 1
        reduce == PatienceExceeded(bad)
    IN  [scheduler |-> [best           |-> IF better THEN metric ELSE s.best,
                        num_bad_epochs |-> IF reduce THEN 0 ELSE bad,
                        last_epoch     |-> s.last_epoch + 1],
         lr_exp    |-> IF reduce THEN ReduceLr(lr) ELSE lr]

(***************************************************************************)
(* test_model, lines 161-181.                                              *)
(***************************************************************************)
\* the numbers of S in ascending order: the k-th has k - 1 smaller ones
SortedSeq(S) ==
    [k \in 1..Cardinality(S) |->
        CHOOSE x \in S : Cardinality({y \in S : y < x}) = k - 1]

CountPairs(y_true, y_pred, r, c) ==
    Cardinality({k \in 1..Len(y_true) : y_true[k] = r /\ y_pred[k] = c})

\* sklearn's confusion_matrix(y_true, y_pred) without labels=: one row and
\* one column per label that occurs in y_true or y_pred, in sorted order
ConfusionLabels(y_true, y_pred) == SortedSeq(SeqToSet(y_true) \cup SeqToSet(y_pred))

ConfusionMatrix(y_true, y_pred) ==
    LET ls == ConfusionLabels(y_true, y_pred)
    IN  [r \in 1..Len(ls) |-> [c \in 1..Len(ls) |->
            CountPairs(y_true, y_pred, ls[r], ls[c])]]

\* accuracy_score(y_true, y_pred) * 100, as a fraction
AccuracyScore(y_true, y_pred) ==
    [num |-> 100 * Cardinality({k \in 1..Len(y_true) : y_true[k] = y_pred[k]}),
     den |-> Len(y_true)]

PredLabels == 0..2

\* what torch.max(outputs, 1) can return for the samples of a loader: every
\* vector of class indices for a short loader, the constant vectors and the
\* all-correct one for a long one
PredChoices(labels) ==
    IF Len(labels) <= MaxTestSamples
    THEN [1..Len(labels) -> PredLabels]
    ELSE {[k \in 1..Len(labels) |-> c] : c \in PredLabels} \cup {labels}

\* a test that loads the checkpoint back first
TestedParamsReloaded(p, ckpt) == IF ckpt # <<>> THEN ckpt[1] ELSE p

\* the parameters test_model evaluates: those of the model it is given
TestedParams(p, ckpt) == p

TestModel(loader, preds) ==
    LET all_labels == loader.labels
    IN  IF all_labels = <<>>
        THEN [ok |-> FALSE, report |-> NoReport]
        ELSE [ok |-> TRUE,
              report |-> [ran        |-> 1,
                          labels     |-> ConfusionLabels(all_labels, preds),
                          all_labels |-> all_labels,
                          all_preds  |-> preds,
                          cm         |-> ConfusionMatrix(all_labels, preds),
                          accuracy   |-> AccuracyScore(all_labels, preds)]]

(***************************************************************************)
(* train_model, lines 99-138.  running_loss and total_correct only feed    *)
(* the printed lines and are left out.                                     *)
(***************************************************************************)
\* the samples of one batch: the next BatchSize positions of the sampler's
\* order over n samples, p of which are drawn already
BatchSet(n, p, o) ==
    LET len == Min(BatchSize, n - p)
    IN  IF o = "fwd" THEN (p + 1)..(p + len) ELSE (n - p - len + 1)..(n - p)

\* a comparison that also takes an equal loss for an improvement
ImprovedOrEqual(loss, best) == loss # NaN /\ best # NaN /\ loss <= best

\* line 135
Improved(loss, best) == FloatLt(loss, best)

\* lines 100-101
TrainModelBegin ==
    /\ pc = "train_model"
    /\ mode' = "train"
    /\ best_validation_loss' = Inf
    /\ epoch' = 0
    /\ pc' = "epoch_head"
    /\ UNCHANGED <<err, inputVars, splitVars, loaderVars, params, eval_memo,
                   lr_exp, scheduler, g, pos, order, used, total_samples,
                   total_batches, validation_loss, validation_accuracy,
                   checkpoint, test_report, callVars, hist>>

\* lines 103-107: the next epoch, or the return to train_and_evaluate
EpochHead ==
    /\ pc = "epoch_head"
    /\ IF epoch < num_epochs
       THEN /\ total_samples' = 0
            /\ total_batches' = 0
            /\ g' = 1 /\ pos' = 0 /\ order' = "fwd"
            /\ used' = [gi \in 1..Len(train_loader_list) |->
                          [k \in 1..DatasetLen(train_loader_list[gi]) |-> 0]]
            /\ pc' = "train"
       ELSE /\ pc' = "load_test"
            /\ UNCHANGED <<total_samples, total_batches, g, pos, order, used>>
    /\ UNCHANGED <<err, inputVars, splitVars, loaderVars, modelVars, epoch,
                   best_validation_loss, validation_loss, validation_accuracy,
                   checkpoint, test_report, callVars, hist>>

\* lines 111-123: one batch of the current loader; a loader with shuffle=True
\* draws its order when its iteration starts
TrainBatch ==
    /\ pc = "train"
    /\ g <= Len(train_loader_list)
    /\ pos < DatasetLen(train_loader_list[g])
    /\ \E o \in IF pos = 0 THEN {"fwd", "rev"} ELSE {order} :
         LET n     == DatasetLen(train_loader_list[g])
             batch == BatchSet(n, pos, o)
         IN  /\ order' = o
             /\ used' = [used EXCEPT ![g] =
                           [k \in 1..n |-> IF k \in batch THEN @[k] + 1 ELSE @[k]]]
             /\ pos' = pos + Cardinality(batch)
             /\ total_samples' = total_samples + Cardinality(batch)
    /\ total_batches' = total_batches + 1
    /\ params' = OptimizerStep(Forward(params, mode))
    /\ eval_memo' = <<>>
    /\ hist' = [hist EXCEPT !.step_mode = mode, !.opt_steps = @ + 1,
                            !.stepped = <<OptimizerStep(Forward(params, mode))>>]
    /\ UNCHANGED <<pc, err, inputVars, splitVars, loaderVars, mode, lr_exp,
                   scheduler, epoch, best_validation_loss, g, validation_loss,
                   validation_accuracy, checkpoint, test_report, callVars>>

\* line 110: the current loader is exhausted, the next one starts
LoaderExhausted ==
    /\ pc = "train"
    /\ g <= Len(train_loader_list)
    /\ pos = DatasetLen(train_loader_list[g])
    /\ g' = g + 1 /\ pos' = 0 /\ order' = "fwd"
    /\ UNCHANGED <<pc, err, inputVars, splitVars, loaderVars, modelVars, epoch,
                   best_validation_loss, used, total_samples, total_batches,
                   validation_loss, validation_accuracy, checkpoint,
                   test_report, callVars, hist>>

\* lines 125-126
EpochStats ==
    /\ pc = "train"
    /\ g > Len(train_loader_list)
    /\ IF total_batches = 0 \/ total_samples = 0
       THEN Raise("ZeroDivisionError")
       ELSE pc' = "validate" /\ err' = err
    /\ UNCHANGED <<inputVars, splitVars, loaderVars, modelVars, loopVars,
                   checkpoint, test_report, callVars, hist>>

\* line 129
Validate ==
    /\ pc = "validate"
    /\ \E m \in ValidateDraws(mode, eval_memo, validation_loader) :
         LET r == ValidateModel(mode, params, eval_memo, validation_loader, m)
         IN  /\ mode' = r.mode
             /\ params' = r.params
             /\ eval_memo' = r.memo
             /\ IF r.ok
                THEN /\ validation_loss' = r.loss
                     /\ validation_accuracy' = r.accuracy
                     /\ pc' = "scheduler"
                     /\ err' = err
                ELSE /\ Raise("ZeroDivisionError")
                     /\ UNCHANGED <<validation_loss, validation_accuracy>>
    /\ UNCHANGED <<inputVars, splitVars, loaderVars, lr_exp, scheduler, epoch,
                   best_validation_loss, g, pos, order, used, total_samples,
                   total_batches, checkpoint, test_report, callVars, hist>>

\* lines 132-133
StepScheduler ==
    /\ pc = "scheduler"
    /\ LET r == SchedulerStep(scheduler, lr_exp, validation_loss)
       IN  /\ scheduler' = r.scheduler
           /\ lr_exp' = r.lr_exp
           /\ hist' = [hist EXCEPT
                  !.reduced = (r.lr_exp # lr_exp),
                  !.lr_before = lr_exp,
                  !.sched_metric = validation_loss,
                  !.bad_run =
                      IF IsBetter(validation_loss, scheduler.best)
                      THEN 0 ELSE @ + 1]
    /\ pc' = "checkpoint"
    /\ UNCHANGED <<err, inputVars, splitVars, loaderVars, mode, params,
                   eval_memo, loopVars, checkpoint, test_report, callVars>>

\* lines 135-138, and the end of the loop body
SaveBest ==
    /\ pc = "checkpoint"
    /\ IF Improved(validation_loss, best_validation_loss)
       THEN /\ best_validation_loss' = validation_loss
            /\ checkpoint' = <<params>>
       ELSE UNCHANGED <<best_validation_loss, checkpoint>>
    /\ hist' = [hist EXCEPT
           !.wrote = Improved(validation_loss, best_validation_loss),
           !.ckpt_writes =
               IF Improved(validation_loss, best_validation_loss)
               THEN @ + 1 ELSE @,
           !.best_before = best_validation_loss,
           !.earlier = hist.seen,
           !.seen = @ \cup {validation_loss}]
    /\ epoch' = epoch + 1
    /\ pc' = "epoch_head"
    /\ UNCHANGED <<err, inputVars, splitVars, loaderVars, modelVars, g, pos,
                   order, used, total_samples, total_batches, validation_loss,
                   validation_accuracy, test_report, callVars>>

(***************************************************************************)
(* train_and_evaluate, lines 207-209.                                      *)
(***************************************************************************)
LoadTest ==
    /\ pc = "load_test"
    /\ LET r == LoadAll(test_subjects, file_samples)
       IN  IF r.ok
           THEN /\ test_loader' = r.dataset
                /\ pc' = "test"
                /\ err' = err
           ELSE /\ Raise("ValueError")
                /\ UNCHANGED test_loader
    /\ UNCHANGED <<inputVars, splitVars, validation_loader, train_groups,
                   train_loader_list, modelVars, loopVars, checkpoint,
                   test_report, callVars, hist>>

\* line 209: test_model(model, test_loader)
Test ==
    /\ pc = "test"
    /\ \E preds \in PredChoices(test_loader.labels) :
         LET r == TestModel(test_loader, preds)
         IN  IF r.ok
             THEN /\ test_report' = r.report
                  /\ hist' = [hist EXCEPT !.tested = <<TestedParams(params, checkpoint)>>]
                  /\ pc' = "done"
                  /\ err' = err
             ELSE /\ Raise("ValueError")
                  /\ UNCHANGED <<test_report, hist>>
    /\ mode' = "eval"
    /\ UNCHANGED <<inputVars, splitVars, loaderVars, params, eval_memo, lr_exp,
                   scheduler, loopVars, checkpoint, callVars>>

Next ==
    \/ Partition \/ LoadValidation \/ Build \/ LoadGroup
    \/ TrainModelBegin \/ EpochHead \/ TrainBatch \/ LoaderExhausted
    \/ EpochStats \/ Validate \/ StepScheduler \/ SaveBest
    \/ LoadTest \/ Test

Spec == Init /\ [][Next]_vars

SpecData == InitData /\ [][Next]_vars

(***************************************************************************)
(* The entry point and random.shuffle, lines 184 and 216-219.              *)
(***************************************************************************)
\* [f'label_data_7500_96_{i}.mat' for i in range(1, 60) if i not in [38, 42, 57]],
\* a file name standing for its number i
EntryList == SortedSeq((FirstSubject..LastSubject) \ ExcludedSubjects)

\* x[i], x[j] = x[j], x[i] (0-based positions)
Swap(x, i, j) == [x EXCEPT ![i + 1] = x[j + 1], ![j + 1] = x[i + 1]]

\* random.shuffle(x): for i in reversed(range(1, len(x))):
\*     j = randbelow(i + 1); x[i], x[j] = x[j], x[i]
\* with the draws j given as a function of i
RECURSIVE ShuffleFrom(_, _, _)
ShuffleFrom(x, draws, i) ==
    IF i < 1 THEN x
    ELSE IF draws[i] = i THEN ShuffleFrom(x, draws, i - 1)
    ELSE ShuffleFrom(Swap(x, i, draws[i]), draws, i - 1)

Shuffled(x, draws) == ShuffleFrom(x, draws, Len(x) - 1)

\* the draws considered: the first k rounds of the loop (i = n - 1 downwards)
\* draw any j in 0..i, the later rounds draw j = i
DrawsUpTo(n, k) ==
    LET free == {i \in 1..(n - 1) : i >= n - k}
    IN  {[i \in 1..(n - 1) |-> IF i \in free THEN f[i] ELSE i] :
            f \in {h \in [free -> 0..(n - 1)] : \A i \in free : h[i] <= i}}

InitEntry ==
    /\ pc = "shuffle"
    /\ subject_files = EntryList
    /\ file_samples = UniformFiles(SeqToSet(EntryList), SliceHi)
    /\ num_epochs = EntryEpochs
    /\ Unset

\* line 184
Shuffle ==
    /\ pc = "shuffle"
    /\ \E draws \in DrawsUpTo(Len(subject_files), MaxSwaps) :
         subject_files' = Shuffled(subject_files, draws)
    /\ pc' = "partition"
    /\ UNCHANGED <<err, file_samples, num_epochs, splitVars, loaderVars,
                   modelVars, loopVars, checkpoint, test_report, callVars, hist>>

NextEntry == Shuffle \/ Partition

SpecEntry == InitEntry /\ [][NextEntry]_vars

(***************************************************************************)
(* load_data applied on its own to a list of files and a group.            *)
(***************************************************************************)
\* a raw class too short for any sample, or one that yields MaxLoadSamples
LoadRawLens == {SliceLo, SliceLo + MaxLoadSamples}

\* group_indices: None, or a run of positions as np.array_split yields them
GroupChoices(n) ==
    {[none |-> TRUE, idxs |-> <<>>]}
    \cup {[none |-> FALSE, idxs |-> Arange(a, b)] : a \in 0..n, b \in 0..n}

InitLoad ==
    /\ pc = "call_load_data"
    /\ \E n \in 0..MaxLoadFiles :
         /\ subject_files = [k \in 1..n |-> k]
         /\ file_samples \in [1..n -> [1..NumClasses -> LoadRawLens]]
         /\ \E grp \in GroupChoices(n) : call = <<grp>>
    /\ num_epochs = 0
    /\ ret = <<>>
    /\ UnsetSplit /\ UnsetGroups /\ UnsetModel /\ UnsetLoop /\ UnsetOut
    /\ validation_loader = NoDataset /\ test_loader = NoDataset

\* load_data(subject_files, group_indices), line 41 choosing the positions
CallLoadData ==
    /\ pc = "call_load_data"
    /\ ret' = <<IF call[1].none
                THEN LoadAll(subject_files, file_samples)
                ELSE LoadData(subject_files, call[1].idxs, file_samples)>>
    /\ pc' = "returned"
    /\ UNCHANGED <<err, inputVars, splitVars, loaderVars, modelVars, loopVars,
                   checkpoint, test_report, call, hist>>

SpecLoad == InitLoad /\ [][CallLoadData]_vars

(***************************************************************************)
(* test_model applied on its own to a model and a test loader.             *)
(***************************************************************************)
\* a dataset with the given labels
DatasetOf(labels) ==
    PVDFDataset3D([k \in 1..Len(labels) |-> <<0, 0, k>>], labels)

InitTest ==
    /\ pc = "test"
    /\ subject_files = <<>> /\ file_samples = <<>> /\ num_epochs = 0
    /\ \E n \in 0..MaxTestSamples :
         \E labels \in [1..n -> PredLabels] : test_loader = DatasetOf(labels)
    /\ mode \in {"train", "eval"}
    /\ params = NewParams /\ eval_memo = <<>>
    /\ lr_exp = InitLrExp /\ scheduler = NewScheduler
    /\ UnsetSplit /\ UnsetGroups /\ UnsetLoop /\ UnsetOut /\ UnsetCall
    /\ validation_loader = NoDataset

SpecTest == InitTest /\ [][Test]_vars

(***************************************************************************)
(* validate_model applied, MaxCalls times in a row, to a model and a       *)
(* validation loader.                                                      *)
(***************************************************************************)
InitValidate ==
    /\ pc = "call_validate_model"
    /\ subject_files = <<>> /\ file_samples = <<>> /\ num_epochs = 0
    /\ \E n \in 0..MaxValSamples :
         validation_loader = DatasetOf([k \in 1..n |-> 0])
    /\ mode \in {"train", "eval"}
    /\ params \in {NewParams, OptimizerStep(Forward(NewParams, "train"))}
    /\ eval_memo = <<>>
    /\ lr_exp = InitLrExp /\ scheduler = NewScheduler
    /\ UnsetSplit /\ UnsetGroups /\ UnsetLoop /\ UnsetOut /\ UnsetCall
    /\ test_loader = NoDataset

\* validate_model(model, validation_loader, criterion); each call's result and
\* the parameters before and after it are kept in ret
CallValidateModel ==
    /\ pc = "call_validate_model"
    /\ Len(ret) < MaxCalls
    /\ \E m \in ValidateDraws(mode, eval_memo, validation_loader) :
         LET r == ValidateModel(mode, params, eval_memo, validation_loader, m)
         IN  /\ mode' = r.mode
             /\ params' = r.params
             /\ eval_memo' = r.memo
             /\ ret' = Append(ret, [ok |-> r.ok, loss |-> r.loss,
                                    accuracy |-> r.accuracy,
                                    before |-> params, after |-> r.params])
    /\ UNCHANGED <<pc, err, inputVars, splitVars, loaderVars, lr_exp,
                   scheduler, loopVars, checkpoint, test_report, call, hist>>

SpecValidate == InitValidate /\ [][CallValidateModel]_vars

\* the run of 18 subjects for one epoch, each raw class non-empty; the program
\* is one thread that takes its next step as long as it has one
InitScenario ==
    RunInit({MinSubjects}, (SliceLo + 1)..(SliceLo + MaxClassSamples), {1})

SpecScenario == InitScenario /\ [][Next]_vars /\ WF_vars(Next)

(***************************************************************************)
(* Properties.                                                             *)
(***************************************************************************)
\* the concatenation of the first k sequences of ss
RECURSIVE FlattenTo(_, _)
FlattenTo(ss, k) == IF k = 0 THEN <<>> ELSE FlattenTo(ss, k - 1) \o ss[k]

Flatten(ss) == FlattenTo(ss, Len(ss))

RECURSIVE SumTo(_, _)
SumTo(s, k) == IF k = 0 THEN 0 ELSE SumTo(s, k - 1) + s[k]

SumSeq(s) == SumTo(s, Len(s))

FloatLe(a, b) == a # NaN /\ b # NaN /\ a <= b

\* the least number of S, +infinity if S holds none
MinNumber(S) ==
    IF S \ {NaN} = {} THEN Inf
    ELSE CHOOSE x \in S \ {NaN} : \A y \in S \ {NaN} : x <= y

AfterCheckpointDecision == pc = "epoch_head" /\ epoch > 0

\* C1 as stated: the checkpoint is written at an epoch only if that epoch's
\* validation loss is strictly less than the loss of every earlier epoch, and
\* best_validation_loss never increases and is the minimum of the losses seen
\* so far (and of its start value +infinity).
C1_AsStated ==
    AfterCheckpointDecision =>
        /\ hist.wrote => \A l \in hist.earlier : FloatLt(validation_loss, l)
        /\ best_validation_loss \in hist.seen \cup {Inf}
        /\ \A l \in hist.seen \cup {Inf} : FloatLe(best_validation_loss, l)
        /\ ~FloatLt(hist.best_before, best_validation_loss)

\* C1, amended: NaN losses disregarded, the checkpoint is written at an epoch
\* only if that epoch's validation loss is a number strictly less than every
\* earlier epoch's (an equal loss or a NaN never causes a write), and
\* best_validation_loss never increases and is the minimum of the losses seen
\* so far that are numbers, +infinity if there is none.
C1_CheckpointMonotone ==
    AfterCheckpointDecision =>
        /\ hist.wrote =>
              /\ validation_loss # NaN
              /\ \A l \in hist.earlier \ {NaN} : validation_loss < l
        /\ best_validation_loss = MinNumber(hist.seen)
        /\ best_validation_loss <= hist.best_before
        /\ best_validation_loss # NaN

C1_Witness ==
    /\ AfterCheckpointDecision
    /\ hist.wrote
    /\ hist.earlier \ {NaN} # {}
    /\ hist.ckpt_writes >= 2

\* C2 as stated: whenever a training batch's forward/backward/optimizer step
\* runs, in any epoch, the model is in training mode.
C2_TrainingModeInEveryStep == hist.step_mode # "eval"

NoDuplicates(seq) == Cardinality(SeqToSet(seq)) = Len(seq)

C4_Scenario ==
    /\ Len(subject_files) = 18
    /\ num_epochs = 1
    /\ \A sf \in DOMAIN file_samples : \A c \in 1..NumClasses :
          file_samples[sf][c] > SliceLo

AccuracyInRange(a) == a.den > 0 /\ 0 <= a.num /\ a.num <= 100 * a.den

\* C4 as stated: in the scenario the run ends without error with the checkpoint
\* written exactly once and the test report run exactly once, its accuracy
\* between 0 and 100.
C4_AsStated ==
    C4_Scenario =>
        /\ pc # "error"
        /\ pc = "done" =>
              /\ hist.ckpt_writes = 1
              /\ test_report.ran = 1
              /\ AccuracyInRange(test_report.accuracy)

C4_Safe ==
    /\ pc # "error" /\ err = ""
    /\ hist.ckpt_writes <= 1
    /\ pc # "done" => test_report.ran = 0
    /\ pc = "done" =>
          /\ test_report.ran = 1
          /\ AccuracyInRange(test_report.accuracy)
          /\ hist.ckpt_writes = 1 <=> validation_loss \in FiniteLosses
          /\ hist.ckpt_writes = 1 <=> checkpoint # <<>>
    /\ pc \in {"load_groups", "train_model"} =>
          \A k \in 1..Len(train_loader_list) : DatasetLen(train_loader_list[k]) > 0
    /\ pc \in {"build", "validate"} => DatasetLen(validation_loader) > 0
    /\ pc = "test" => DatasetLen(test_loader) > 0

\* C4, amended: in the scenario the run terminates without error (the 6
\* training groups, the validation set and the test set are non-empty), runs
\* the test report exactly once with an accuracy between 0 and 100, and writes
\* the checkpoint at most once: exactly once when the epoch's validation loss
\* is a finite number, not at all when it is NaN or +infinity.
C4_EndToEnd ==
    /\ [](C4_Scenario => C4_Safe)
    /\ C4_Scenario ~> (pc = "done")

C4_Witness ==
    /\ C4_Scenario
    /\ pc = "done"
    /\ hist.ckpt_writes = 1
    /\ test_report.ran = 1
    /\ test_report.accuracy.num > 0

\* what the claims say of the labels: 0 for raw class 0, 1 for 1 and 2, 2 for 3
MergedLabel == <<0, 1, 1, 2>>

\* the sample count of a raw class with first axis of length rawLen: the
\* windows 10..89 that exist
WindowCount(rawLen) == Cardinality({w \in SliceLo..(SliceHi - 1) : w < rawLen})

\* the positions load_data was asked to read
SelectedPositions ==
    IF call[1].none THEN Arange(0, Len(subject_files)) ELSE call[1].idxs

LexLess(a, b) ==
    \/ a[1] < b[1]
    \/ a[1] = b[1] /\ a[2] < b[2]
    \/ a[1] = b[1] /\ a[2] = b[2] /\ a[3] < b[3]

\* C5: every sample taken from raw class i carries the label 0, 1, 1, 2 for
\* i = 0, 1, 2, 3; the dataset holds the samples in subject order, then raw
\* class order, with one label per sample, and as many samples as the selected
\* subjects' 4 raw classes hold together.
C5_LabelsOrderCount ==
    (pc = "returned" /\ ret[1].ok) =>
        LET ds  == ret[1].dataset
            sel == SelectedPositions
        IN  /\ Len(ds.labels) = Len(ds.data)
            /\ \A k \in 1..Len(ds.data) :
                  /\ ds.data[k][2] \in 0..3
                  /\ ds.labels[k] = MergedLabel[ds.data[k][2] + 1]
            /\ \A k \in 1..(Len(ds.data) - 1) : LexLess(ds.data[k], ds.data[k + 1])
            /\ \A k \in 1..Len(ds.data) :
                  \E q \in 1..Len(sel) : ds.data[k][1] = subject_files[sel[q] + 1]
            /\ \A q \in 1..Len(sel) : \A i \in 0..3 :
                  Cardinality({k \in 1..Len(ds.data) :
                      ds.data[k][1] = subject_files[sel[q] + 1] /\ ds.data[k][2] = i})
                  = WindowCount(file_samples[subject_files[sel[q] + 1]][i + 1])
            /\ DatasetLen(ds) =
                  SumSeq([q \in 1..(Len(sel) * 4) |->
                      WindowCount(file_samples[subject_files[sel[((q - 1) \div 4) + 1] + 1]]
                                              [((q - 1) % 4) + 1])])

\* two subjects loaded through a group, every raw class of both non-empty
C5_Witness ==
    /\ pc = "returned" /\ ret[1].ok
    /\ ~call[1].none
    /\ Len(call[1].idxs) = 2
    /\ DatasetLen(ret[1].dataset) = 2 * NumClasses * MaxLoadSamples
    /\ SeqToSet(ret[1].dataset.labels) = {0, 1, 2}

\* C6 as stated: for a non-empty test loader with labels and predictions in
\* {0,1,2}, the confusion matrix is 3 by 3, rows the true classes 0,1,2 and
\* columns the predicted ones; its entries sum to the number of test samples
\* and its diagonal over that number is the returned accuracy over 100.
C6_ConfusionMatrix3x3 ==
    (pc = "done" /\ test_report.ran = 1) =>
        LET cm == test_report.cm
            n  == Len(test_report.all_labels)
        IN  /\ Len(cm) = 3
            /\ \A r \in 1..Len(cm) : Len(cm[r]) = 3
            /\ \A r \in 1..Len(cm) : \A c \in 1..Len(cm[r]) :
                  cm[r][c] = CountPairs(test_report.all_labels,
                                        test_report.all_preds, r - 1, c - 1)
            /\ SumSeq([r \in 1..Len(cm) |-> SumSeq(cm[r])]) = n
            /\ 100 * SumSeq([r \in 1..Len(cm) |-> cm[r][r]]) * test_report.accuracy.den
                  = test_report.accuracy.num * n

\* C7: validate_model leaves the parameters, the optimizer's rate and the
\* scheduler as they were, and two calls in a row on the same model and
\* non-empty loader return the same loss and accuracy.
C7_ValidatePure ==
    /\ \A k \in 1..Len(ret) : ret[k].ok => ret[k].after = ret[k].before
    /\ \A k \in 1..(Len(ret) - 1) :
          (ret[k].ok /\ ret[k + 1].ok) =>
              /\ ret[k + 1].loss = ret[k].loss
              /\ ret[k + 1].accuracy = ret[k].accuracy
              /\ ret[k + 1].before = ret[k].after
    /\ lr_exp = InitLrExp /\ scheduler = NewScheduler
    /\ checkpoint = <<>>

C7_Witness ==
    /\ Len(ret) = 2
    /\ ret[1].ok /\ ret[2].ok
    /\ ret[2].loss \in FiniteLosses
    /\ ret[2].accuracy.num > 0
    /\ ret[1].before.ver > 0

\* the scheduler has been stepped for the current epoch and the checkpoint
\* decision of that epoch is still to come
SchedulerStepped == pc = "checkpoint"

\* C8 as stated: the learning rate is reduced at the third consecutive epoch
\* whose validation loss the scheduler does not count as an improvement.
C8_AsStated ==
    (SchedulerStepped /\ hist.lr_before < MinLrExp) =>
        /\ hist.bad_run = Patience => hist.reduced
        /\ hist.reduced => hist.bad_run >= Patience

\* what one scheduler step leaves behind: one step per completed validation,
\* taken with that epoch's validation loss before the checkpoint decision; the
\* rate drops by one factor of ten exactly at every (Patience + 1)-th epoch in
\* a row that is not better than the scheduler's best by the relative threshold
C8_StepState ==
    /\ scheduler.last_epoch = epoch + (IF SchedulerStepped THEN 1 ELSE 0)
    /\ SchedulerStepped =>
          /\ hist.sched_metric = validation_loss
          /\ hist.reduced <=>
                /\ hist.bad_run > 0
                /\ hist.bad_run % (Patience + 1) = 0
                /\ hist.lr_before < MinLrExp
          /\ lr_exp = hist.lr_before + (IF hist.reduced THEN 1 ELSE 0)
          /\ hist.bad_run < Patience + 1 => ~hist.reduced
    /\ lr_exp >= InitLrExp

\* C8 (amended): the scheduler is stepped once per epoch with that epoch's
\* validation loss, after validation and before the checkpoint decision; it
\* divides the learning rate by ten at the fourth consecutive epoch whose loss
\* is not better than its best, in no epoch before that, and the rate, 0.01 at
\* the start, never increases.
C8_Scheduler ==
    /\ [](C8_StepState)
    /\ [][lr_exp' >= lr_exp]_vars
    /\ [][(scheduler' # scheduler) =>
             (pc = "build" \/ (pc = "scheduler" /\ pc' = "checkpoint"))]_vars

\* a reduction has happened: four epochs in a row were not better
C8_Witness ==
    /\ SchedulerStepped
    /\ hist.reduced
    /\ hist.bad_run = Patience + 1
    /\ lr_exp = InitLrExp + 1

\* the sizes of the training groups
GroupSizes == [gi \in 1..Len(train_groups) |-> Len(train_groups[gi])]

\* how often the samples of loader gi were part of a batch in this epoch
UsedAll(gi, c) == \A k \in 1..Len(used[gi]) : used[gi][k] = c

\* C9: the positions 0..n-1 of the training subjects are split into 6
\* contiguous groups whose sizes differ by at most 1 (8,8,7,7,7,7 for 44
\* subjects), every position in exactly one group; an epoch consumes the 6
\* loaders in list order, each to its end before the next starts, every
\* training sample is in exactly one batch per epoch, and total_samples at the
\* end of the epoch is the number of training samples.
C9_GroupsAndEpochPass ==
    /\ train_groups # <<>> =>
          /\ Len(train_groups) = NumGroups
          /\ Flatten(train_groups) = Arange(0, Len(train_subjects))
          /\ \A a, b \in 1..NumGroups : GroupSizes[a] - GroupSizes[b] <= 1
          /\ Len(train_subjects) = 44 => GroupSizes = <<8, 8, 7, 7, 7, 7>>
    /\ pc = "train_model" =>
          /\ Len(train_loader_list) = NumGroups
          /\ Flatten([gi \in 1..NumGroups |-> train_loader_list[gi].data])
                = LoadAll(train_subjects, file_samples).dataset.data
    /\ pc = "train" =>
          /\ Len(used) = NumGroups
          /\ \A gi \in 1..NumGroups :
                /\ Len(used[gi]) = DatasetLen(train_loader_list[gi])
                /\ gi < g => UsedAll(gi, 1)
                /\ gi > g => UsedAll(gi, 0)
                /\ gi = g =>
                      /\ \A k \in 1..Len(used[gi]) : used[gi][k] \in {0, 1}
                      /\ SumSeq(used[gi]) = pos
          /\ total_samples = SumSeq([gi \in 1..NumGroups |-> SumSeq(used[gi])])
    /\ pc \in {"validate", "scheduler", "checkpoint"} =>
          /\ \A gi \in 1..NumGroups : UsedAll(gi, 1)
          /\ total_samples =
                SumSeq([gi \in 1..NumGroups |-> DatasetLen(train_loader_list[gi])])

\* the second epoch over 44 training subjects has been consumed
C9_Witness ==
    /\ pc = "validate"
    /\ epoch = 1
    /\ Len(train_subjects) = 44
    /\ GroupSizes = <<8, 8, 7, 7, 7, 7>>
    /\ total_samples = 44 * NumClasses
    /\ total_batches > NumGroups

\* C10: the checkpoint is written and never read: test_model evaluates the
\* parameters in memory, those the last optimizer step of the final epoch
\* left, and when the final epoch did not improve on the best validation loss
\* they differ from the parameters stored in the checkpoint.
C10_TestUsesFinalParams ==
    /\ pc = "done" =>
          /\ hist.tested = <<params>>
          /\ hist.tested = hist.stepped
          /\ params.ver = hist.opt_steps
          /\ (~hist.wrote /\ checkpoint # <<>>) => checkpoint # hist.tested
    /\ hist.tested # <<>> => pc = "done"

\* the final epoch did not improve and an earlier one had written the checkpoint
C10_Witness ==
    /\ pc = "done"
    /\ ~hist.wrote
    /\ checkpoint # <<>>
    /\ epoch >= 2

=============================================================================
